---- MODULE Spec2Model ----
(***************************************************************************)
(* Usage-billing reconciliation of the Stripe logging callback             *)
(* (litellm/integrations/stripe.py) and the prepaid balance ledger         *)
(* endpoints (litellm/proxy/management_endpoints/stripe_balance_endpoints).*)
(*                                                                         *)
(* Strings that the code only tests with "in" and "==" are sequences of    *)
(* tokens ("meters+prepaid" is <<"meters", "+", "prepaid">>); amounts are  *)
(* integers (units of the smallest amount the model distinguishes).        *)
(***************************************************************************)
EXTENDS Integers, Sequences, FiniteSets, TLC

VARIABLES
    env,            \* os.environ, as read by the logger and the endpoints
    logger,         \* the StripeLogger after __init__ (validate_environment)
    balances,       \* LiteLLM_StripeBalanceTable: identity -> row or NoRecord
    transactions,   \* LiteLLM_StripeTransactionTable: the rows, in append order
    proc,           \* one invocation of (async_)log_success_event per Procs id
    hook,           \* one delivery to stripe_webhook per Hooks id
    cmp,            \* the two modes run on one input (SpecModes only)
    call            \* one request to /stripe/balance or /stripe/topup per Calls id

vars == <<env, logger, balances, transactions, proc, hook, cmp, call>>

(***************************************************************************)
(* Bounds of the model.                                                    *)
(***************************************************************************)
MaxCost == 7
MaxTopup == 5
MaxInitialBalance == 10
MaxOps == 2
MaxTokens == 9

(***************************************************************************)
(* Python values.                                                          *)
(***************************************************************************)
None == "<None>"
Unset == <<None>>

Truthy(s) == s # None /\ s # ""

Max(a, b) == IF a >= b THEN a ELSE b

\* str.lower() on the tokens the model uses
Lower(tok) ==
    CASE tok = "METERS" -> "meters"
      [] tok = "Subscriptions" -> "subscriptions"
      [] tok = "TRUE" -> "true"
      [] OTHER -> tok

LowerStr(s) == [i \in DOMAIN s |-> Lower(s[i])]

\* needle in s, for a needle that is one token
Contains(needle, s) == \E i \in DOMAIN s : s[i] = needle

\* os.getenv(name, default)
Getenv(value, default) == IF value = Unset THEN default ELSE value

RECURSIVE Join(_)
Join(methods) ==
    IF Len(methods) = 0 THEN <<>>
    ELSE IF Len(methods) = 1 THEN <<methods[1]>>
    ELSE <<methods[1], "+">> \o Join(Tail(methods))

(***************************************************************************)
(* StripeLogger.validate_environment                                       *)
(***************************************************************************)
HasSubscription(e) == e.STRIPE_PRICE_ID # None
HasMeters(e) == e.STRIPE_METER_EVENT_NAME # None
HasPrepaid(e) == LowerStr(Getenv(e.STRIPE_USE_PREPAID_BALANCE, <<"false">>)) = <<"true">>

MissingKeys_FirstOnly(e) ==
    IF e.STRIPE_API_KEY = None THEN <<"STRIPE_API_KEY">>
    ELSE IF ~HasSubscription(e) /\ ~HasMeters(e) /\ ~HasPrepaid(e)
    THEN <<"STRIPE_PRICE_ID, STRIPE_METER_EVENT_NAME, or STRIPE_USE_PREPAID_BALANCE">>
    ELSE <<>>

\* missing_keys, as validate_environment collects them before raising
MissingKeys(e) ==
    (IF e.STRIPE_API_KEY = None THEN <<"STRIPE_API_KEY">> ELSE <<>>)
    \o (IF ~HasSubscription(e) /\ ~HasMeters(e) /\ ~HasPrepaid(e)
        THEN <<"STRIPE_PRICE_ID, STRIPE_METER_EVENT_NAME, or STRIPE_USE_PREPAID_BALANCE">>
        ELSE <<>>)

AutoMethods_PriceAsMeters(e) ==
    (IF HasMeters(e) THEN <<"meters">> ELSE <<>>)
    \o (IF HasSubscription(e) /\ ~HasMeters(e) THEN <<"meters">> ELSE <<>>)
    \o (IF HasPrepaid(e) THEN <<"prepaid">> ELSE <<>>)

\* methods, as the "auto" branch of validate_environment collects them
AutoMethods(e) ==
    (IF HasMeters(e) THEN <<"meters">> ELSE <<>>)
    \o (IF HasSubscription(e) THEN <<"subscriptions">> ELSE <<>>)
    \o (IF HasPrepaid(e) THEN <<"prepaid">> ELSE <<>>)

BillingMethod(e) ==
    LET billing_method == LowerStr(Getenv(e.STRIPE_BILLING_METHOD, <<"auto">>))
        methods == AutoMethods(e)
    IN  IF billing_method = <<"auto">>
        THEN IF Len(methods) > 1 THEN Join(methods)
             ELSE IF Len(methods) = 1 THEN <<methods[1]>>
             ELSE <<"meters">>
        ELSE billing_method

UsePrepaid(e) == HasPrepaid(e) \/ Contains("prepaid", BillingMethod(e))

ValidateEnvironment(e) ==
    IF Len(MissingKeys(e)) > 0
    THEN [constructed |-> FALSE, missing_keys |-> MissingKeys(e),
          billing_method |-> <<>>, use_prepaid |-> FALSE]
    ELSE [constructed |-> TRUE, missing_keys |-> <<>>,
          billing_method |-> BillingMethod(e), use_prepaid |-> UsePrepaid(e)]

(***************************************************************************)
(* Customer resolution, as each strategy does it.                          *)
(***************************************************************************)
ChargeByValues == {"end_user_id", "user_id", "team_id"}

\* _common_logic: an unrecognised STRIPE_CHARGE_BY raises
CommonChargeBy(e) ==
    IF e.STRIPE_CHARGE_BY # None
    THEN IF e.STRIPE_CHARGE_BY \in ChargeByValues
         THEN [err |-> "none", charge_by |-> e.STRIPE_CHARGE_BY]
         ELSE [err |-> "invalid STRIPE_CHARGE_BY set", charge_by |-> "end_user_id"]
    ELSE [err |-> "none", charge_by |-> "end_user_id"]

\* _send_meter_event and the prepaid legs: an unrecognised value is ignored
LenientChargeBy(e) ==
    IF e.STRIPE_CHARGE_BY # None /\ e.STRIPE_CHARGE_BY \in ChargeByValues
    THEN e.STRIPE_CHARGE_BY
    ELSE "end_user_id"

CustomerId_TeamForUser(charge_by, req) ==
    CASE charge_by = "end_user_id" -> req.end_user_id
      [] charge_by = "team_id" -> req.team_id
      [] charge_by = "user_id" -> req.team_id

\* if charge_by == "end_user_id": ... elif "team_id": ... elif "user_id": ...
CustomerId(charge_by, req) ==
    CASE charge_by = "end_user_id" -> req.end_user_id
      [] charge_by = "team_id" -> req.team_id
      [] charge_by = "user_id" -> req.user_id

StripeCustomerId(customer_type, customer_id) == <<customer_type, "_", customer_id>>

(***************************************************************************)
(* The ledger store: one row per (customer_type, customer_id), which the   *)
(* table's UNIQUE constraint guarantees, and the append-only transactions. *)
(***************************************************************************)
CustomerIds == {"a", "b"}
Identities == ChargeByValues \X CustomerIds

NoRecord == [exists |-> FALSE, balance |-> 0, total_topups |-> 0, total_spent |-> 0]

\* litellm_stripebalancetable.create(data={... "balance": 0.0, ...})
NewRecord == [exists |-> TRUE, balance |-> 0, total_topups |-> 0, total_spent |-> 0]

NewBalance_NoClamp(old_balance, cost) == old_balance - cost

\* new_balance = max(0.0, old_balance - cost)
NewBalance(old_balance, cost) == Max(0, old_balance - cost)

\* actual_deduction = old_balance - new_balance
ActualDeduction(old_balance, cost) == old_balance - NewBalance(old_balance, cost)

DebitedRecord_WholeRow(current, balance_record, cost) ==
    [balance_record EXCEPT
        !.balance = NewBalance(balance_record.balance, cost),
        !.total_spent = balance_record.total_spent + ActualDeduction(balance_record.balance, cost)]

DebitedRecord_IntendedCost(current, balance_record, cost) ==
    [current EXCEPT
        !.balance = NewBalance(balance_record.balance, cost),
        !.total_spent = balance_record.total_spent + cost]

\* litellm_stripebalancetable.update(data={"balance", "total_spent"})
DebitedRecord(current, balance_record, cost) ==
    [current EXCEPT
        !.balance = NewBalance(balance_record.balance, cost),
        !.total_spent = balance_record.total_spent
                        + ActualDeduction(balance_record.balance, cost)]

DeductionTransaction_IntendedCost(customer_type, customer_id, balance_record, cost, request_id) ==
    [customer_type |-> customer_type,
     customer_id |-> customer_id,
     transaction_type |-> "deduction",
     amount |-> 0 - cost,
     balance_before |-> balance_record.balance,
     balance_after |-> NewBalance(balance_record.balance, cost),
     request_id |-> request_id,
     stripe_checkout_session_id |-> None]

\* litellm_stripetransactiontable.create(data={... "transaction_type": "deduction" ...})
DeductionTransaction(customer_type, customer_id, balance_record, cost, request_id) ==
    [customer_type |-> customer_type,
     customer_id |-> customer_id,
     transaction_type |-> "deduction",
     amount |-> 0 - ActualDeduction(balance_record.balance, cost),
     balance_before |-> balance_record.balance,
     balance_after |-> NewBalance(balance_record.balance, cost),
     request_id |-> request_id,
     stripe_checkout_session_id |-> None]

(***************************************************************************)
(* One invocation of the dispatcher.  pc is the next suspension point:     *)
(* "find", "create", "update", "append" are the awaits of                  *)
(* _async_deduct_from_balance, "meters" and "subs" the two provider legs.  *)
(***************************************************************************)
NoRequest == [id |-> None, cost |-> <<>>, usage |-> <<>>, end_user_id |-> None,
              user_id |-> None, team_id |-> None]

IdleProc ==
    [pc |-> "idle", mode |-> "none", req |-> NoRequest,
     customer_type |-> None, customer_id |-> None,
     balance_record |-> NoRecord, trace |-> <<>>, errors |-> <<>>,
     billed |-> <<>>, raised |-> "none"]

\* an exception thrown, or a skip the code logs, in one leg of the invocation
Failed(st, leg, what) == [st EXCEPT !.errors = Append(@, <<leg, what>>)]

NextLeg_SubscriptionsFirst(leg) ==
    CASE leg = "prepaid" -> "subs"
      [] leg = "subs" -> "meters"
      [] leg = "meters" -> "done"

\* the order of the three blocks of log_success_event / async_log_success_event
NextLeg(leg) ==
    CASE leg = "prepaid" -> "meters"
      [] leg = "meters" -> "subs"
      [] leg = "subs" -> "done"

NoCost_OnlyAbsent(cost) == cost = <<>>

\* cost is None or cost <= 0   /   not (cost and cost > 0)
NoCost(cost) == cost = <<>> \/ cost[1] <= 0

SyncPrepaidFailure_Reraise(st) == [st EXCEPT !.pc = "done", !.raised = "prepaid"]

\* except Exception in _deduct_from_prepaid_balance and in log_success_event
SyncPrepaidFailure(st) == [st EXCEPT !.pc = NextLeg("prepaid")]

AsyncPrepaidFailure_Reraise(st) == [st EXCEPT !.pc = "done", !.raised = "prepaid"]

\* except Exception around the prepaid block of async_log_success_event
AsyncPrepaidFailure(st) == [st EXCEPT !.pc = NextLeg("prepaid")]

PrepaidFailure(st) ==
    IF st.mode = "sync" THEN SyncPrepaidFailure(st) ELSE AsyncPrepaidFailure(st)

\* log_success_event up to the first ledger call: _deduct_from_prepaid_balance
\* returns early, or hands over to _async_deduct_from_balance through asyncio.run
SyncEntry(lg, e, req, loop, db_available) ==
    LET st == [IdleProc EXCEPT !.mode = "sync", !.req = req]
        charge_by == LenientChargeBy(e)
        customer_id == CustomerId(charge_by, req)
    IN  IF ~lg.use_prepaid THEN [st EXCEPT !.pc = NextLeg("prepaid")]
        ELSE LET at == [st EXCEPT !.trace = <<"prepaid">>]
             IN  IF ~db_available
                 THEN [Failed(at, "prepaid", "unavailable") EXCEPT !.pc = NextLeg("prepaid")]
                 ELSE IF NoCost(req.cost) THEN [at EXCEPT !.pc = NextLeg("prepaid")]
                 ELSE IF ~Truthy(customer_id) THEN [at EXCEPT !.pc = NextLeg("prepaid")]
                 ELSE IF loop = "none"
                 THEN SyncPrepaidFailure(Failed(at, "prepaid", "get_event_loop"))
                 ELSE IF loop = "running" THEN [at EXCEPT !.pc = NextLeg("prepaid")]
                 ELSE [at EXCEPT !.pc = "find", !.customer_type = charge_by,
                                 !.customer_id = customer_id]

\* async_log_success_event up to the first ledger call
AsyncEntry(lg, e, req, db_available) ==
    LET st == [IdleProc EXCEPT !.mode = "async", !.req = req]
        charge_by == LenientChargeBy(e)
        customer_id == CustomerId(charge_by, req)
    IN  IF ~lg.use_prepaid THEN [st EXCEPT !.pc = NextLeg("prepaid")]
        ELSE LET at == [st EXCEPT !.trace = <<"prepaid">>]
             IN  IF ~db_available
                 THEN [Failed(at, "prepaid", "unavailable") EXCEPT !.pc = NextLeg("prepaid")]
                 ELSE IF ~NoCost(req.cost) /\ Truthy(customer_id)
                 THEN [at EXCEPT !.pc = "find", !.customer_type = charge_by,
                                 !.customer_id = customer_id]
                 ELSE [at EXCEPT !.pc = NextLeg("prepaid")]

CreateRejected_NoConstraint(db, ident) == FALSE

\* UNIQUE(customer_type, customer_id): create raises when the identity has a row
CreateRejected(db, ident) == db.balances[ident].exists

\* _async_deduct_from_balance, one await at a time; ok is whether the store's
\* call succeeds.  The result is the invocation and the store after the call.
DeductStep(st, db, ok) ==
    LET ident == <<st.customer_type, st.customer_id>>
        called == [st EXCEPT !.trace = Append(@, st.pc)]
        cost == st.req.cost[1]
        thrown == Failed(called, "prepaid", st.pc)
    IN  CASE st.pc = "find" ->
               IF ~ok THEN [st |-> PrepaidFailure(thrown), db |-> db]
               ELSE IF db.balances[ident].exists
               THEN [st |-> [called EXCEPT !.pc = "update",
                                           !.balance_record = db.balances[ident]],
                     db |-> db]
               ELSE [st |-> [called EXCEPT !.pc = "create"], db |-> db]
          [] st.pc = "create" ->
               \* a row another task created since violates the UNIQUE constraint
               IF ~ok \/ CreateRejected(db, ident)
               THEN [st |-> PrepaidFailure(thrown), db |-> db]
               ELSE [st |-> [called EXCEPT !.pc = "update", !.balance_record = NewRecord],
                     db |-> [db EXCEPT !.balances[ident] = NewRecord]]
          [] st.pc = "update" ->
               IF ~ok THEN [st |-> PrepaidFailure(thrown), db |-> db]
               ELSE [st |-> [called EXCEPT !.pc = "append"],
                     db |-> [db EXCEPT !.balances[ident] =
                                 DebitedRecord(@, st.balance_record, cost)]]
          [] st.pc = "append" ->
               IF ~ok THEN [st |-> PrepaidFailure(thrown), db |-> db]
               ELSE [st |-> [called EXCEPT !.pc = NextLeg("prepaid")],
                     db |-> [db EXCEPT !.transactions =
                                 Append(@, DeductionTransaction(st.customer_type,
                                     st.customer_id, st.balance_record, cost, st.req.id))]]

CustomerIdNotSet_Never(customer_id) == FALSE

\* if customer_id is None: raise Exception("Customer ID (is) not set ...")
CustomerIdNotSet(customer_id) == customer_id = None

\* usage.get("total_tokens", 1): usage is {} when the response carries no usage,
\* and holds the response's total_tokens otherwise
Quantity(usage) == IF usage = <<>> THEN 1 ELSE usage[1]

\* what a provider call carries: payload[stripe_customer_id] and payload[value]
\* of the meter event, metadata[customer_id] and quantity of the usage record
Billed(st, leg, customer_id) ==
    [st EXCEPT !.billed = Append(@, <<leg, customer_id, Quantity(st.req.usage)>>)]

\* the strategies the dispatcher runs: if self.use_prepaid, if "meters" in
\* self.billing_method, if "subscriptions" in self.billing_method
ActiveStrategies(lg) ==
    (IF lg.use_prepaid THEN {"prepaid"} ELSE {})
    \cup {m \in {"meters", "subscriptions"} : Contains(m, lg.billing_method)}

\* except Exception of the meter block: re-raised only when billing_method == "meters"
MeterFailure(st, lg) ==
    IF lg.billing_method = <<"meters">>
    THEN [st EXCEPT !.pc = "done", !.raised = "meters"]
    ELSE [st EXCEPT !.pc = NextLeg("meters")]

\* the meter block: _send_meter_event builds the event, the handler posts it
MeterLeg(st, lg, e, ok) ==
    IF ~Contains("meters", lg.billing_method) THEN [st EXCEPT !.pc = NextLeg("meters")]
    ELSE LET at == [st EXCEPT !.trace = Append(@, "meters")]
             customer_id == CustomerId(LenientChargeBy(e), st.req)
         IN  IF CustomerIdNotSet(customer_id)
             THEN MeterFailure(Failed(at, "meters", "Customer ID not set"), lg)
             ELSE LET posted == [Billed(at, "meters", customer_id)
                                    EXCEPT !.trace = Append(@, "meter_post")]
                  IN  IF ok THEN [posted EXCEPT !.pc = NextLeg("meters")]
                      ELSE MeterFailure(Failed(posted, "meters", "post"), lg)

SubscriptionFailure_Swallow(st) == [st EXCEPT !.pc = "done"]

\* except Exception of the subscription block: always re-raised
SubscriptionFailure(st) == [st EXCEPT !.pc = "done", !.raised = "subscriptions"]

\* the subscription block: _common_logic builds the record, the handler posts it
SubscriptionLeg(st, lg, e, ok) ==
    IF ~Contains("subscriptions", lg.billing_method) THEN [st EXCEPT !.pc = NextLeg("subs")]
    ELSE LET at == [st EXCEPT !.trace = Append(@, "subscriptions")]
             resolved == CommonChargeBy(e)
             customer_id == CustomerId(resolved.charge_by, st.req)
         IN  IF resolved.err # "none"
             THEN SubscriptionFailure(Failed(at, "subscriptions", resolved.err))
             ELSE IF CustomerIdNotSet(customer_id)
             THEN SubscriptionFailure(Failed(at, "subscriptions", "Customer ID is not set"))
             ELSE LET posted == [Billed(at, "subscriptions", customer_id)
                                    EXCEPT !.trace = Append(@, "usage_post")]
                  IN  IF ok THEN [posted EXCEPT !.pc = NextLeg("subs")]
                      ELSE SubscriptionFailure(Failed(posted, "subscriptions", "post"))

(***************************************************************************)
(* stripe_webhook: one delivery of a provider event.  pc is the next       *)
(* await: "find", "update" (the balance update), "record"                  *)
(* (record_transaction).                                                   *)
(***************************************************************************)
NoEvent == [type |-> None, id |-> None, customer_type |-> None, customer_id |-> None,
            stripe_customer_id |-> None, topup_amount |-> 0]

IdleHook == [pc |-> "idle", event |-> NoEvent, balance_record |-> NoRecord,
             result |-> "none"]

MetadataComplete_AmountOptional(ev) ==
    /\ Truthy(ev.customer_type)
    /\ Truthy(ev.customer_id)
    /\ Truthy(ev.stripe_customer_id)

\* all([customer_type, customer_id, stripe_customer_id, topup_amount])
MetadataComplete(ev) ==
    /\ Truthy(ev.customer_type)
    /\ Truthy(ev.customer_id)
    /\ Truthy(ev.stripe_customer_id)
    /\ ev.topup_amount # 0

\* litellm_stripebalancetable.update(data={"balance", "total_topups"})
CreditedRecord(current, balance_record, topup_amount) ==
    [current EXCEPT
        !.balance = balance_record.balance + topup_amount,
        !.total_topups = balance_record.total_topups + topup_amount]

\* record_transaction(... transaction_type="topup" ...)
TopupTransaction(ev, balance_record) ==
    [customer_type |-> ev.customer_type,
     customer_id |-> ev.customer_id,
     transaction_type |-> "topup",
     amount |-> ev.topup_amount,
     balance_before |-> balance_record.balance,
     balance_after |-> balance_record.balance + ev.topup_amount,
     request_id |-> None,
     stripe_checkout_session_id |-> ev.id]

RecordNotFound_Proceed(hk) == [hk EXCEPT !.pc = "update", !.balance_record = NewRecord]

\* if not balance_record: return {"status": "error", "message": "Balance record not found"}
RecordNotFound(hk) == [hk EXCEPT !.pc = "done", !.result = "error: Balance record not found"]

\* stripe_webhook up to its first ledger call
WebhookEntry(ev, db_available) ==
    LET hk == [IdleHook EXCEPT !.event = ev]
    IN  IF ~db_available THEN [hk EXCEPT !.pc = "done", !.result = "http_500"]
        ELSE IF ev.type # "checkout.session.completed"
        THEN [hk EXCEPT !.pc = "done", !.result = "success"]
        ELSE IF ~MetadataComplete(ev)
        THEN [hk EXCEPT !.pc = "done", !.result = "error: Missing metadata"]
        ELSE [hk EXCEPT !.pc = "find"]

\* the three awaits of the checkout.session.completed branch
WebhookStep(hk, db, ok) ==
    LET ident == <<hk.event.customer_type, hk.event.customer_id>>
        raised == [hk EXCEPT !.pc = "done", !.result = "raised"]
    IN  CASE hk.pc = "find" ->
               IF ~ok THEN [hk |-> raised, db |-> db]
               ELSE IF ~db.balances[ident].exists
               THEN [hk |-> RecordNotFound(hk), db |-> db]
               ELSE [hk |-> [hk EXCEPT !.pc = "update",
                                       !.balance_record = db.balances[ident]],
                     db |-> db]
          [] hk.pc = "update" ->
               IF ~ok THEN [hk |-> raised, db |-> db]
               ELSE [hk |-> [hk EXCEPT !.pc = "record"],
                     db |-> [db EXCEPT !.balances[ident] =
                                 CreditedRecord(@, hk.balance_record,
                                                hk.event.topup_amount)]]
          [] hk.pc = "record" ->
               IF ~ok THEN [hk |-> raised, db |-> db]
               ELSE [hk |-> [hk EXCEPT !.pc = "done", !.result = "success"],
                     db |-> [db EXCEPT !.transactions =
                                 Append(@, TopupTransaction(hk.event, hk.balance_record))]]

(***************************************************************************)
(* The balance endpoints: get_balance and create_topup_checkout.  pc is    *)
(* the next await: "find" and "create" of get_or_create_balance_record,    *)
(* "post" (the checkout session sent to the provider).                     *)
(***************************************************************************)
NoTopUpRequest == [amount |-> 0, customer_type |-> None, customer_id |-> None]

IdleCall == [pc |-> "idle", op |-> "none", customer_type |-> None, customer_id |-> None,
             request |-> NoTopUpRequest, balance_record |-> NoRecord,
             trace |-> <<>>, result |-> "none"]

\* charge_by = os.getenv("STRIPE_CHARGE_BY", "end_user_id") and its if / elif / else
EndpointCustomer(e, key) ==
    LET charge_by == IF e.STRIPE_CHARGE_BY = None THEN "end_user_id"
                     ELSE e.STRIPE_CHARGE_BY
    IN  IF charge_by = "user_id" THEN <<"user_id", key.user_id>>
        ELSE IF charge_by = "team_id" THEN <<"team_id", key.team_id>>
        ELSE <<"end_user_id", key.end_user_id>>

\* get_balance up to get_or_create_balance_record
GetBalanceEntry(e, key, db_available) ==
    LET customer == EndpointCustomer(e, key)
        cl == [IdleCall EXCEPT !.op = "get_balance"]
    IN  IF ~db_available THEN [cl EXCEPT !.pc = "done", !.result = "http_500"]
        ELSE IF ~Truthy(customer[2]) THEN [cl EXCEPT !.pc = "done", !.result = "http_400"]
        ELSE [cl EXCEPT !.pc = "find", !.customer_type = customer[1],
                        !.customer_id = customer[2]]

\* create_topup_checkout up to get_or_create_balance_record
CheckoutEntry(e, key, request, db_available) ==
    LET customer == IF Truthy(request.customer_id)
                    THEN <<request.customer_type, request.customer_id>>
                    ELSE EndpointCustomer(e, key)
        cl == [IdleCall EXCEPT !.op = "create_topup_checkout", !.request = request]
    IN  IF ~db_available THEN [cl EXCEPT !.pc = "done", !.result = "http_500"]
        ELSE IF request.amount <= 0 THEN [cl EXCEPT !.pc = "done", !.result = "http_400"]
        ELSE IF ~Truthy(customer[2]) THEN [cl EXCEPT !.pc = "done", !.result = "http_400"]
        ELSE [cl EXCEPT !.pc = "find", !.customer_type = customer[1],
                        !.customer_id = customer[2]]

\* what follows get_or_create_balance_record: get_balance returns the
\* BalanceResponse, create_topup_checkout reads STRIPE_API_KEY and goes on to post
RecordReady(cl, e, balance_record) ==
    LET got == [cl EXCEPT !.balance_record = balance_record]
    IN  IF cl.op = "get_balance" THEN [got EXCEPT !.pc = "done", !.result = "balance"]
        ELSE IF ~Truthy(e.STRIPE_API_KEY) THEN [got EXCEPT !.pc = "done", !.result = "http_500"]
        ELSE [got EXCEPT !.pc = "post"]

\* get_or_create_balance_record, one await at a time; an exception of the store
\* leaves the endpoint unhandled
GetOrCreateStep(cl, db, e, ok) ==
    LET ident == <<cl.customer_type, cl.customer_id>>
        called == [cl EXCEPT !.trace = Append(@, cl.pc)]
        raised == [called EXCEPT !.pc = "done", !.result = "raised"]
    IN  IF cl.pc = "find"
        THEN IF ~ok THEN [cl |-> raised, db |-> db]
             ELSE IF db.balances[ident].exists
             THEN [cl |-> RecordReady(called, e, db.balances[ident]), db |-> db]
             ELSE [cl |-> [called EXCEPT !.pc = "create"], db |-> db]
        ELSE IF ~ok \/ CreateRejected(db, ident)
             THEN [cl |-> raised, db |-> db]
             ELSE [cl |-> [RecordReady(called, e, NewRecord) EXCEPT !.trace = Append(@, "created")],
                   db |-> [db EXCEPT !.balances[ident] = NewRecord]]

CheckoutSessionCreated_Credits(cl, db) ==
    [cl |-> [cl EXCEPT !.pc = "done", !.result = "checkout_url"],
     db |-> [db EXCEPT !.balances[<<cl.customer_type, cl.customer_id>>].balance =
                           @ + cl.request.amount]]

\* return TopUpResponse(checkout_session_id, checkout_url): nothing is written
CheckoutSessionCreated(cl, db) ==
    [cl |-> [cl EXCEPT !.pc = "done", !.result = "checkout_url"], db |-> db]

\* client.post(.../v1/checkout/sessions) and raise_for_status()
CheckoutPost(cl, db, ok) ==
    LET posted == [cl EXCEPT !.trace = Append(@, "post")]
    IN  IF ok THEN CheckoutSessionCreated(posted, db)
        ELSE [cl |-> [posted EXCEPT !.pc = "done", !.result = "http_500"], db |-> db]

(***************************************************************************)
(* Inputs.                                                                 *)
(***************************************************************************)
Envs ==
    [STRIPE_API_KEY : {None, "sk_test_123"},
     STRIPE_PRICE_ID : {None, "price_123"},
     STRIPE_METER_EVENT_NAME : {None, "tokens"},
     STRIPE_USE_PREPAID_BALANCE : {Unset, <<"true">>},
     STRIPE_BILLING_METHOD : {Unset, <<"meters">>, <<"Subscriptions">>, <<"invoices">>},
     STRIPE_CHARGE_BY : {None, "end_user_id", "user_id", "team_id", "invalid_option"}]

\* the configuration of the ledger's concurrency runs: prepaid alone, auto-detected
LedgerEnvs ==
    {e \in Envs : /\ e.STRIPE_API_KEY # None
                  /\ HasPrepaid(e)
                  /\ e.STRIPE_BILLING_METHOD = Unset
                  /\ e.STRIPE_CHARGE_BY = None
                  /\ e.STRIPE_PRICE_ID = None
                  /\ e.STRIPE_METER_EVENT_NAME = None}

Costs == {<<>>, <<0>>, <<3>>, <<MaxCost>>}

\* <<body user, user_api_key_user_id, user_api_key_team_id>>
RequestCustomers == {<<"a", "a", "b">>, <<"b", "b", "a">>, <<None, "a", None>>,
                     <<"", None, "a">>}

\* total_tokens of the response: no usage on the response, 0, MaxTokens
Usages == {<<>>, <<0>>, <<MaxTokens>>}

Requests ==
    {[id |-> None, cost |-> c, usage |-> u, end_user_id |-> ids[1], user_id |-> ids[2],
      team_id |-> ids[3]] : c \in Costs, u \in Usages, ids \in RequestCustomers}

LedgerRequests ==
    {r \in Requests :
        r.end_user_id = "a" /\ r.cost \in {<<3>>, <<MaxCost>>} /\ r.usage = <<MaxTokens>>}

LoopStates == {"stopped", "running", "none"}

TopupAmounts == {0 - MaxTopup, 0, MaxTopup}

Events ==
    [type : {"checkout.session.completed"}, id : {"cs_1"},
     customer_type : {None, "end_user_id", "team_id"}, customer_id : {None, "", "a"},
     stripe_customer_id : {None, "cus"}, topup_amount : TopupAmounts]
    \cup {[NoEvent EXCEPT !.type = "payment_intent.succeeded", !.id = "pi_1"]}

LedgerEvents ==
    {ev \in Events : /\ ev.customer_type = "end_user_id"
                     /\ ev.customer_id = "a"
                     /\ ev.stripe_customer_id = "cus"
                     /\ ev.topup_amount # 0}

\* the authenticated key of a request to the endpoints
ApiKeys ==
    [end_user_id : {None, "a", "b"}, user_id : {"a"}, team_id : {None}]

\* TopUpRequest: amount, customer_type, customer_id (success_url, cancel_url)
TopUpRequests ==
    [amount : {0, MaxTopup}, customer_type : {"end_user_id"}, customer_id : {None, "b"}]

\* the requests the endpoints' runs debit for
EndpointRequests == {r \in LedgerRequests : r.cost = <<3>>}

\* the store the program starts on: empty, or holding one identity funded by
\* an earlier top-up
FundedLedger(ident, amount) ==
    [balances |-> [i \in Identities |->
                      IF i = ident
                      THEN [NewRecord EXCEPT !.balance = amount, !.total_topups = amount]
                      ELSE NoRecord],
     transactions |-> <<[customer_type |-> ident[1], customer_id |-> ident[2],
                         transaction_type |-> "topup", amount |-> amount,
                         balance_before |-> 0, balance_after |-> amount,
                         request_id |-> None, stripe_checkout_session_id |-> "cs_0"]>>]

\* the same identity after an earlier debit of what exceeds MaxTopup
SpentLedger(ident) ==
    LET funded == FundedLedger(ident, MaxInitialBalance)
        spent == MaxInitialBalance - MaxTopup
    IN  [balances |-> [funded.balances EXCEPT ![ident].balance = MaxTopup,
                                               ![ident].total_spent = spent],
         transactions |-> Append(funded.transactions,
                        [customer_type |-> ident[1], customer_id |-> ident[2],
                         transaction_type |-> "deduction", amount |-> 0 - spent,
                         balance_before |-> MaxInitialBalance, balance_after |-> MaxTopup,
                         request_id |-> "r0", stripe_checkout_session_id |-> None])]

EmptyLedger == [balances |-> [i \in Identities |-> NoRecord], transactions |-> <<>>]

InitialLedgers(e) ==
    {EmptyLedger}
    \cup {FundedLedger(<<LenientChargeBy(e), "a">>, b) : b \in {MaxTopup, MaxInitialBalance}}
    \cup {SpentLedger(<<LenientChargeBy(e), "a">>)}

(***************************************************************************)
(* The state machine.                                                      *)
(***************************************************************************)
Procs == {"p1", "p2"}
Hooks == {"h1", "h2"}
Calls == {"c1", "c2"}

Db == [balances |-> balances, transactions |-> transactions]

InitOver(envs) ==
    /\ env \in envs
    /\ logger = ValidateEnvironment(env)
    /\ \E l \in InitialLedgers(env) :
          /\ balances = l.balances
          /\ transactions = l.transactions
    /\ proc = [p \in Procs |-> IdleProc]
    /\ hook = [h \in Hooks |-> IdleHook]
    /\ cmp = [run |-> FALSE]
    /\ call = [c \in Calls |-> IdleCall]

Init == InitOver(Envs)

\* log_success_event, called for one completed request
LogSuccessEvent(p, requests) ==
    /\ logger.constructed
    /\ proc[p].pc = "idle"
    /\ \E r \in requests, loop \in LoopStates, db_available \in BOOLEAN :
          proc' = [proc EXCEPT ![p] =
                      SyncEntry(logger, env, [r EXCEPT !.id = p], loop, db_available)]
    /\ UNCHANGED <<env, logger, balances, transactions, hook, cmp, call>>

\* async_log_success_event, called for one completed request
AsyncLogSuccessEvent(p, requests) ==
    /\ logger.constructed
    /\ proc[p].pc = "idle"
    /\ \E r \in requests, db_available \in BOOLEAN :
          proc' = [proc EXCEPT ![p] =
                      AsyncEntry(logger, env, [r EXCEPT !.id = p], db_available)]
    /\ UNCHANGED <<env, logger, balances, transactions, hook, cmp, call>>

\* one await of _async_deduct_from_balance
Deduct(p) ==
    /\ proc[p].pc \in {"find", "create", "update", "append"}
    /\ \E ok \in BOOLEAN :
          LET r == DeductStep(proc[p], Db, ok)
          IN  /\ proc' = [proc EXCEPT ![p] = r.st]
              /\ balances' = r.db.balances
              /\ transactions' = r.db.transactions
    /\ UNCHANGED <<env, logger, hook, cmp, call>>

\* the meter block of the dispatcher
SendMeterEvent(p) ==
    /\ proc[p].pc = "meters"
    /\ \E ok \in BOOLEAN : proc' = [proc EXCEPT ![p] = MeterLeg(@, logger, env, ok)]
    /\ UNCHANGED <<env, logger, balances, transactions, hook, cmp, call>>

\* the subscription block of the dispatcher
SendUsageRecord(p) ==
    /\ proc[p].pc = "subs"
    /\ \E ok \in BOOLEAN : proc' = [proc EXCEPT ![p] = SubscriptionLeg(@, logger, env, ok)]
    /\ UNCHANGED <<env, logger, balances, transactions, hook, cmp, call>>

\* stripe_webhook receives an event
StripeWebhook(h, events) ==
    /\ hook[h].pc = "idle"
    /\ \E ev \in events, db_available \in BOOLEAN :
          hook' = [hook EXCEPT ![h] = WebhookEntry(ev, db_available)]
    /\ UNCHANGED <<env, logger, balances, transactions, proc, cmp, call>>

\* one await of the checkout.session.completed branch
WebhookLedger(h) ==
    /\ hook[h].pc \in {"find", "update", "record"}
    /\ \E ok \in BOOLEAN :
          LET r == WebhookStep(hook[h], Db, ok)
          IN  /\ hook' = [hook EXCEPT ![h] = r.hk]
              /\ balances' = r.db.balances
              /\ transactions' = r.db.transactions
    /\ UNCHANGED <<env, logger, proc, cmp, call>>

\* GET /stripe/balance
GetBalance(c, keys) ==
    /\ call[c].pc = "idle"
    /\ \E key \in keys, db_available \in BOOLEAN :
          call' = [call EXCEPT ![c] = GetBalanceEntry(env, key, db_available)]
    /\ UNCHANGED <<env, logger, balances, transactions, proc, hook, cmp>>

\* POST /stripe/topup
CreateTopupCheckout(c, keys, requests) ==
    /\ call[c].pc = "idle"
    /\ \E key \in keys, request \in requests, db_available \in BOOLEAN :
          call' = [call EXCEPT ![c] = CheckoutEntry(env, key, request, db_available)]
    /\ UNCHANGED <<env, logger, balances, transactions, proc, hook, cmp>>

\* one await of get_or_create_balance_record
GetOrCreateBalanceRecord(c) ==
    /\ call[c].pc \in {"find", "create"}
    /\ \E ok \in BOOLEAN :
          LET r == GetOrCreateStep(call[c], Db, env, ok)
          IN  /\ call' = [call EXCEPT ![c] = r.cl]
              /\ balances' = r.db.balances
              /\ transactions' = r.db.transactions
    /\ UNCHANGED <<env, logger, proc, hook, cmp>>

\* the checkout session posted to the provider
CheckoutSession(c) ==
    /\ call[c].pc = "post"
    /\ \E ok \in BOOLEAN :
          LET r == CheckoutPost(call[c], Db, ok)
          IN  /\ call' = [call EXCEPT ![c] = r.cl]
              /\ balances' = r.db.balances
              /\ transactions' = r.db.transactions
    /\ UNCHANGED <<env, logger, proc, hook, cmp>>

\* one invocation of the dispatcher, every configuration
Next ==
    \/ LogSuccessEvent("p1", Requests)
    \/ AsyncLogSuccessEvent("p1", Requests)
    \/ Deduct("p1")
    \/ SendMeterEvent("p1")
    \/ SendUsageRecord("p1")

Spec == Init /\ [][Next]_vars

\* invocations and deliveries interleaved, MaxOps of them, prepaid configurations
InitLedger == InitOver(LedgerEnvs)

Started ==
    Cardinality({p \in Procs : proc[p].pc # "idle"})
    + Cardinality({h \in Hooks : hook[h].pc # "idle"})
    + Cardinality({c \in Calls : call[c].pc # "idle"})

\* invocations, and deliveries, are numbered in the order they start
ProcInOrder(p) == p = "p1" \/ proc["p1"].pc # "idle"
HookInOrder(h) == h = "h1" \/ hook["h1"].pc # "idle"
CallInOrder(c) == c = "c1" \/ call["c1"].pc # "idle"

NextLedger ==
    \/ \E p \in Procs :
          \/ Started < MaxOps /\ ProcInOrder(p) /\ LogSuccessEvent(p, LedgerRequests)
          \/ Started < MaxOps /\ ProcInOrder(p) /\ AsyncLogSuccessEvent(p, LedgerRequests)
          \/ Deduct(p)
          \/ SendMeterEvent(p)
          \/ SendUsageRecord(p)
    \/ \E h \in Hooks :
          \/ Started < MaxOps /\ HookInOrder(h) /\ StripeWebhook(h, LedgerEvents)
          \/ WebhookLedger(h)

SpecLedger == InitLedger /\ [][NextLedger]_vars

\* no ledger operation is between two of its awaits
Quiet ==
    /\ \A p \in Procs : proc[p].pc \notin {"find", "create", "update", "append"}
    /\ \A h \in Hooks : hook[h].pc \notin {"find", "update", "record"}

\* invocations and deliveries one after the other, MaxOps of them: none starts
\* while another is between its awaits
NextSerial ==
    \/ \E p \in Procs :
          \/ Quiet /\ Started < MaxOps /\ ProcInOrder(p) /\ LogSuccessEvent(p, LedgerRequests)
          \/ Quiet /\ Started < MaxOps /\ ProcInOrder(p) /\ AsyncLogSuccessEvent(p, LedgerRequests)
          \/ Deduct(p)
          \/ SendMeterEvent(p)
          \/ SendUsageRecord(p)
    \/ \E h \in Hooks :
          \/ Quiet /\ Started < MaxOps /\ HookInOrder(h) /\ StripeWebhook(h, LedgerEvents)
          \/ WebhookLedger(h)

SpecSerial == InitLedger /\ [][NextSerial]_vars

\* deliveries of every event, MaxOps of them, interleaved
NextWebhook ==
    \E h \in Hooks :
        \/ Started < MaxOps /\ HookInOrder(h) /\ StripeWebhook(h, Events)
        \/ WebhookLedger(h)

SpecWebhook == InitLedger /\ [][NextWebhook]_vars

\* requests to the endpoints, one debit and one delivery, MaxOps of them,
\* interleaved
NextEndpoints ==
    \/ \E c \in Calls :
          \/ Started < MaxOps /\ CallInOrder(c) /\ GetBalance(c, ApiKeys)
          \/ Started < MaxOps /\ CallInOrder(c)
                /\ CreateTopupCheckout(c, ApiKeys, TopUpRequests)
          \/ GetOrCreateBalanceRecord(c)
          \/ CheckoutSession(c)
    \/ Started < MaxOps /\ AsyncLogSuccessEvent("p1", EndpointRequests)
    \/ Deduct("p1")
    \/ SendMeterEvent("p1")
    \/ SendUsageRecord("p1")
    \/ Started < MaxOps /\ StripeWebhook("h1", LedgerEvents)
    \/ WebhookLedger("h1")

SpecEndpoints == InitLedger /\ [][NextEndpoints]_vars

(***************************************************************************)
(* The two modes on one input: each runs alone, from the same store, with  *)
(* the same outcome of every ledger and provider call.                     *)
(***************************************************************************)
Oracles ==
    [ledger_fail : {"none", "unavailable", "find", "create", "update", "append"},
     meter_ok : BOOLEAN, subs_ok : BOOLEAN]

\* the invocation run to its end, every call answered by the oracle
RECURSIVE Run(_, _, _, _, _)
Run(st, db, lg, e, oracle) ==
    IF st.pc = "done" THEN [st |-> st, db |-> db]
    ELSE IF st.pc = "meters" THEN Run(MeterLeg(st, lg, e, oracle.meter_ok), db, lg, e, oracle)
    ELSE IF st.pc = "subs" THEN Run(SubscriptionLeg(st, lg, e, oracle.subs_ok), db, lg, e, oracle)
    ELSE LET r == DeductStep(st, db, oracle.ledger_fail # st.pc)
         IN  Run(r.st, r.db, lg, e, oracle)

Outcome(r) == [trace |-> r.st.trace, errors |-> r.st.errors, raised |-> r.st.raised,
               db |-> r.db]

CompareModes ==
    /\ logger.constructed
    /\ ~cmp.run
    /\ \E r \in Requests, loop \in LoopStates, oracle \in Oracles :
          LET req == [r EXCEPT !.id = "p1"]
              db_available == oracle.ledger_fail # "unavailable"
          IN  cmp' = [run |-> TRUE, req |-> req, loop |-> loop, oracle |-> oracle,
                      sync |-> Outcome(Run(SyncEntry(logger, env, req, loop, db_available),
                                           Db, logger, env, oracle)),
                      async |-> Outcome(Run(AsyncEntry(logger, env, req, db_available),
                                            Db, logger, env, oracle))]
    /\ UNCHANGED <<env, logger, balances, transactions, proc, hook, call>>

NextModes == CompareModes

SpecModes == Init /\ [][NextModes]_vars

(***************************************************************************)
(* What the properties speak of.                                           *)
(***************************************************************************)
HasError(st, leg) == \E i \in DOMAIN st.errors : st.errors[i][1] = leg

InTrace(st, what) == \E i \in DOMAIN st.trace : st.trace[i] = what

IsPrefix(a, b) == Len(a) <= Len(b) /\ a = SubSeq(b, 1, Len(a))

\* the store the run started on: the transactions only grow
StartLedger ==
    CHOOSE l \in InitialLedgers(env) :
        /\ IsPrefix(l.transactions, transactions)
        /\ \A m \in InitialLedgers(env) :
              IsPrefix(m.transactions, transactions)
                  => Len(m.transactions) <= Len(l.transactions)

\* the rows _async_deduct_from_balance appended for invocation p
DeductionsOf(p) == {i \in DOMAIN transactions : transactions[i].request_id = p}

Debited(p) == DeductionsOf(p) # {}

IdentityOf(p) == <<proc[p].customer_type, proc[p].customer_id>>

\* the rows stripe_webhook appended for a checkout session
TopupsOf(session) ==
    {i \in DOMAIN transactions :
        /\ transactions[i].transaction_type = "topup"
        /\ transactions[i].stripe_checkout_session_id = session}

\* the identity field the charge_by policy selects is absent from the request
IdentityMissing(st) ==
    /\ CommonChargeBy(env).err = "none"
    /\ CustomerId(CommonChargeBy(env).charge_by, st.req) = None

(***************************************************************************)
(* C1: in every reachable state every BalanceRecord has balance >= 0,      *)
(* whatever debits and checkout.session.completed credits were applied and *)
(* whatever cost and topup_amount they carried.                            *)
(***************************************************************************)
C1_BalanceNeverNegative == \A i \in Identities : balances[i].balance >= 0

(***************************************************************************)
(* C2: two debits of the same identity that both completed, with nothing   *)
(* else touching the ledger, leave the balance and total_spent that the    *)
(* two debits applied one after the other leave: no update is lost.        *)
(***************************************************************************)
C2_NoLostUpdate ==
    \A p, q \in Procs :
        (/\ p # q
         /\ Debited(p) /\ Debited(q)
         /\ IdentityOf(p) = IdentityOf(q)
         /\ \A h \in Hooks : hook[h].pc = "idle")
        => LET pre == StartLedger.balances[IdentityOf(p)]
               after == Max(0, pre.balance - proc[p].req.cost[1] - proc[q].req.cost[1])
           IN  /\ balances[IdentityOf(p)].balance = after
               /\ balances[IdentityOf(p)].total_spent
                      = pre.total_spent + (pre.balance - after)

(***************************************************************************)
(* C3: the same checkout.session.completed event delivered twice yields    *)
(* exactly one topup TransactionRecord for its session and credits balance *)
(* and total_topups once.                                                  *)
(***************************************************************************)
C3_WebhookIdempotent ==
    \A g, h \in Hooks :
        (/\ g # h
         /\ hook[g].pc = "done" /\ hook[h].pc = "done"
         /\ hook[g].event = hook[h].event
         /\ hook[g].result = "success" /\ hook[h].result = "success"
         /\ hook[g].event.type = "checkout.session.completed")
        => LET ev == hook[g].event
               ident == <<ev.customer_type, ev.customer_id>>
               pre == StartLedger.balances[ident]
           IN  /\ Cardinality(TopupsOf(ev.id)) = 1
               /\ balances[ident].balance = pre.balance + ev.topup_amount
               /\ balances[ident].total_topups = pre.total_topups + ev.topup_amount

(***************************************************************************)
(* C4: a debit of cost d > 0 on a record with balance b leaves balance     *)
(* max(0, b - d), raises total_spent by b - max(0, b - d) and appends one  *)
(* deduction row with amount -(b - max(0, b - d)); when d > b the balance  *)
(* is 0 and exactly b was deducted.  (A debit that runs alone.)            *)
(***************************************************************************)
C4_DebitClamps ==
    \A p \in Procs :
        Debited(p) =>
            LET pre == StartLedger.balances[IdentityOf(p)]
                b == pre.balance
                d == proc[p].req.cost[1]
                after == Max(0, b - d)
                now == balances[IdentityOf(p)]
            IN  /\ d > 0
                /\ now.balance = after
                /\ now.total_spent = pre.total_spent + (b - after)
                /\ now.total_topups = pre.total_topups
                /\ Cardinality(DeductionsOf(p)) = 1
                /\ \A i \in DeductionsOf(p) :
                      /\ transactions[i].transaction_type = "deduction"
                      /\ transactions[i].amount = 0 - (b - after)
                /\ (d > b => /\ now.balance = 0
                             /\ now.total_spent = pre.total_spent + b)

C4_ClampedDebit ==
    /\ Debited("p1")
    /\ StartLedger.balances[IdentityOf("p1")].balance > 0
    /\ proc["p1"].req.cost[1] > StartLedger.balances[IdentityOf("p1")].balance
    /\ balances[IdentityOf("p1")].balance = 0

(***************************************************************************)
(* C5: when the subscription leg fails, building or sending the usage      *)
(* record, the invocation ends by raising that failure, whatever the other *)
(* active strategies are and whether they succeeded.                       *)
(***************************************************************************)
C5_SubscriptionFailurePropagates ==
    \A p \in Procs :
        (proc[p].pc = "done" /\ HasError(proc[p], "subscriptions"))
            => proc[p].raised = "subscriptions"

C5_SubscriptionFailedAfterOthersFailed ==
    /\ proc["p1"].pc = "done"
    /\ HasError(proc["p1"], "subscriptions")
    /\ HasError(proc["p1"], "meters")
    /\ HasError(proc["p1"], "prepaid")
    /\ proc["p1"].raised = "subscriptions"

(***************************************************************************)
(* C6: a failure in the prepaid leg (store unavailable, read, create,      *)
(* update or append error) is never raised to the caller, and the meter    *)
(* and subscription legs that are active are still attempted.              *)
(***************************************************************************)
C6_PrepaidFailureSwallowed ==
    \A p \in Procs :
        HasError(proc[p], "prepaid") =>
            /\ proc[p].raised # "prepaid"
            /\ proc[p].raised = "none" \/ HasError(proc[p], proc[p].raised)
            /\ proc[p].pc = "done" =>
                  /\ "meters" \in ActiveStrategies(logger)
                        => InTrace(proc[p], "meters")
                  /\ "subscriptions" \in ActiveStrategies(logger)
                        => InTrace(proc[p], "subscriptions")

C6_LedgerUpdateFailedLegsRan ==
    /\ proc["p1"].pc = "done"
    /\ \E i \in DOMAIN proc["p1"].errors : proc["p1"].errors[i] = <<"prepaid", "update">>
    /\ InTrace(proc["p1"], "meter_post")
    /\ InTrace(proc["p1"], "usage_post")
    /\ proc["p1"].raised = "none"

(***************************************************************************)
(* C7: a meter failure is raised to the caller iff meters is the only      *)
(* active strategy; combined with subscriptions and/or prepaid it is not   *)
(* raised and the subscription leg, if active, is still attempted.         *)
(***************************************************************************)
C7_MeterFailurePropagatesIffSole ==
    \A p \in Procs :
        (proc[p].pc = "done" /\ HasError(proc[p], "meters")) =>
            /\ proc[p].raised = "meters" <=> ActiveStrategies(logger) = {"meters"}
            /\ "subscriptions" \in ActiveStrategies(logger)
                  => InTrace(proc[p], "subscriptions")

(***************************************************************************)
(* C8: within one invocation the legs are attempted in the order prepaid,  *)
(* meters, subscriptions: no meter or subscription call before the prepaid *)
(* attempt has finished, no subscription call before the meter attempt has *)
(* finished.                                                               *)
(***************************************************************************)
LegRank(what) ==
    CASE what \in {"prepaid", "find", "create", "update", "append"} -> 1
      [] what \in {"meters", "meter_post"} -> 2
      [] what \in {"subscriptions", "usage_post"} -> 3

C8_FixedLegOrder ==
    \A p \in Procs :
        /\ \A i, j \in DOMAIN proc[p].trace :
              i < j => LegRank(proc[p].trace[i]) <= LegRank(proc[p].trace[j])
        /\ proc[p].pc \in {"find", "create", "update", "append"}
              => \A i \in DOMAIN proc[p].trace : LegRank(proc[p].trace[i]) = 1
        /\ proc[p].pc = "meters"
              => \A i \in DOMAIN proc[p].trace : LegRank(proc[p].trace[i]) = 1
        /\ proc[p].pc = "subs"
              => \A i \in DOMAIN proc[p].trace : LegRank(proc[p].trace[i]) <= 2

C8_AllThreeLegsRan ==
    /\ proc["p1"].pc = "done"
    /\ InTrace(proc["p1"], "append")
    /\ InTrace(proc["p1"], "meter_post")
    /\ InTrace(proc["p1"], "usage_post")

(***************************************************************************)
(* C9 as claimed: for the same configuration, request and outcomes of the  *)
(* ledger and provider calls, log_success_event and                        *)
(* async_log_success_event attempt the same calls in the same order, leave *)
(* the ledger in the same state and raise or swallow the same failures.    *)
(***************************************************************************)
C9_ModesEquivalent ==
    cmp.run =>
        /\ cmp.sync.trace = cmp.async.trace
        /\ cmp.sync.db = cmp.async.db
        /\ cmp.sync.raised = cmp.async.raised

ProviderLegs(trace) == SelectSeq(trace, LAMBDA what : LegRank(what) > 1)

(***************************************************************************)
(* C9 as amended: both modes attempt the same meter and subscription calls *)
(* in the same order and raise or swallow the same failures; they leave    *)
(* the ledger in the same state when log_success_event finds an event loop *)
(* that is not running, and otherwise log_success_event leaves the ledger  *)
(* untouched.                                                              *)
(***************************************************************************)
C9_ModesEquivalentOffLoop ==
    cmp.run =>
        /\ cmp.sync.raised = cmp.async.raised
        /\ ProviderLegs(cmp.sync.trace) = ProviderLegs(cmp.async.trace)
        /\ cmp.loop = "stopped" => /\ cmp.sync.trace = cmp.async.trace
                                   /\ cmp.sync.db = cmp.async.db
        /\ cmp.loop # "stopped" => cmp.sync.db = Db

C9_BothModesDebited ==
    /\ cmp.run
    /\ cmp.loop = "stopped"
    /\ cmp.sync.db # Db
    /\ InTrace(cmp.sync, "append")
    /\ InTrace(cmp.async, "append")
    /\ InTrace(cmp.sync, "usage_post")

(***************************************************************************)
(* C10: when the identity field the charge_by policy selects is missing    *)
(* from the request and meters and subscriptions are both active, the      *)
(* invocation raises nothing to the caller.                                *)
(***************************************************************************)
C10_MissingIdentityRaisesNothing ==
    \A p \in Procs :
        (/\ proc[p].pc = "done"
         /\ IdentityMissing(proc[p])
         /\ {"meters", "subscriptions"} \subseteq ActiveStrategies(logger))
        => proc[p].raised = "none"

(***************************************************************************)
(* C11: when the identity field the charge_by policy selects is missing    *)
(* from the request, no meter event and no usage record is sent, no        *)
(* BalanceRecord is created or changed and no TransactionRecord appended.  *)
(***************************************************************************)
C11_MissingIdentitySkipsEveryLeg ==
    \A p \in Procs :
        (proc[p].pc # "idle" /\ IdentityMissing(proc[p])) =>
            /\ ~InTrace(proc[p], "meter_post")
            /\ ~InTrace(proc[p], "usage_post")
            /\ \A what \in {"find", "create", "update", "append"} : ~InTrace(proc[p], what)
            /\ proc[p].billed = <<>>
            /\ balances = StartLedger.balances
            /\ transactions = StartLedger.transactions

C11_MissingIdentityAllLegsActive ==
    /\ proc["p1"].pc = "done"
    /\ IdentityMissing(proc["p1"])
    /\ ActiveStrategies(logger) = {"prepaid", "meters", "subscriptions"}
    /\ ~NoCost(proc["p1"].req.cost)
    /\ ~HasError(proc["p1"], "prepaid")
    /\ InTrace(proc["p1"], "prepaid")
    /\ InTrace(proc["p1"], "meters")
    /\ InTrace(proc["p1"], "subscriptions")

\* STRIPE_CHARGE_BY is set to something other than the three recognised values
PolicyInvalid == env.STRIPE_CHARGE_BY # None /\ env.STRIPE_CHARGE_BY \notin ChargeByValues

(***************************************************************************)
(* C12: when STRIPE_CHARGE_BY is set to a value other than end_user_id,    *)
(* user_id or team_id, no strategy resolves a customer or bills anyone:    *)
(* no provider call carries a customer, the ledger is not read or changed, *)
(* and each active provider leg that ran failed.                           *)
(***************************************************************************)
C12_InvalidPolicyBillsNobody ==
    \A p \in Procs :
        (proc[p].pc # "idle" /\ PolicyInvalid) =>
            /\ proc[p].billed = <<>>
            /\ \A what \in {"find", "create", "update", "append"} : ~InTrace(proc[p], what)
            /\ balances = StartLedger.balances
            /\ transactions = StartLedger.transactions
            /\ InTrace(proc[p], "meters") => HasError(proc[p], "meters")
            /\ InTrace(proc[p], "subscriptions") => HasError(proc[p], "subscriptions")

\* the field of the request the configured policy names
PolicyField(req) ==
    CASE env.STRIPE_CHARGE_BY = None -> req.end_user_id
      [] env.STRIPE_CHARGE_BY = "end_user_id" -> req.end_user_id
      [] env.STRIPE_CHARGE_BY = "user_id" -> req.user_id
      [] env.STRIPE_CHARGE_BY = "team_id" -> req.team_id

PolicyType ==
    IF env.STRIPE_CHARGE_BY = None THEN "end_user_id" ELSE env.STRIPE_CHARGE_BY

(***************************************************************************)
(* C13: under a recognised or unconfigured policy every strategy bills the *)
(* customer the policy names: end_user_id the request body's user, user_id *)
(* the authenticated user id, team_id the authenticated team id, no policy *)
(* as end_user_id; a leg that bills nobody is one where that field is      *)
(* absent (or empty, for the ledger).                                      *)
(***************************************************************************)
C13_ResolutionFollowsPolicy ==
    \A p \in Procs :
        (proc[p].pc # "idle" /\ ~PolicyInvalid) =>
            /\ \A i \in DOMAIN proc[p].billed :
                  proc[p].billed[i][2] = PolicyField(proc[p].req)
            /\ InTrace(proc[p], "find") =>
                  /\ proc[p].customer_type = PolicyType
                  /\ proc[p].customer_id = PolicyField(proc[p].req)
            /\ \A leg \in {"meters", "subscriptions"} :
                  (InTrace(proc[p], leg) /\ proc[p].pc = "done"
                   /\ PolicyField(proc[p].req) # None)
                      => \E i \in DOMAIN proc[p].billed : proc[p].billed[i][1] = leg

C13_UserPolicyBilledEverywhere ==
    /\ proc["p1"].pc = "done"
    /\ env.STRIPE_CHARGE_BY = "user_id"
    /\ proc["p1"].req.user_id # proc["p1"].req.end_user_id
    /\ proc["p1"].billed = <<<<"meters", proc["p1"].req.user_id, MaxTokens>>,
                             <<"subscriptions", proc["p1"].req.user_id, MaxTokens>>>>
    /\ InTrace(proc["p1"], "append")
    /\ proc["p1"].customer_type = "user_id"

\* the settings as the operator wrote them
PriceConfigured == env.STRIPE_PRICE_ID # None
MeterConfigured == env.STRIPE_METER_EVENT_NAME # None
PrepaidFlagSet == env.STRIPE_USE_PREPAID_BALANCE \in {<<"true">>, <<"TRUE">>}
OverrideSet == env.STRIPE_BILLING_METHOD # Unset

(***************************************************************************)
(* C14: with no override the active strategies are meters iff a meter      *)
(* event name is configured, subscriptions iff a price is configured and   *)
(* prepaid iff the prepaid flag is set, and a finished invocation has      *)
(* attempted exactly those legs.                                           *)
(***************************************************************************)
C14_AutoDetectedStrategiesRun ==
    (logger.constructed /\ ~OverrideSet) =>
        /\ "meters" \in ActiveStrategies(logger) <=> MeterConfigured
        /\ "subscriptions" \in ActiveStrategies(logger) <=> PriceConfigured
        /\ "prepaid" \in ActiveStrategies(logger) <=> PrepaidFlagSet
        /\ \A p \in Procs :
              proc[p].pc = "done" =>
                  /\ InTrace(proc[p], "meters") <=> MeterConfigured
                  /\ InTrace(proc[p], "subscriptions") <=> PriceConfigured
                  /\ InTrace(proc[p], "prepaid") <=> PrepaidFlagSet
                  /\ ~MeterConfigured => ~InTrace(proc[p], "meter_post")
                  /\ ~PriceConfigured => ~InTrace(proc[p], "usage_post")

C14_OnlyPriceOneUsageCall ==
    /\ ~OverrideSet
    /\ PriceConfigured /\ ~MeterConfigured /\ ~PrepaidFlagSet
    /\ proc["p1"].pc = "done"
    /\ proc["p1"].trace = <<"subscriptions", "usage_post">>
    /\ proc["p1"].raised = "none"

\* the strategies an override string names
Named(leg) == Contains(leg, LowerStr(env.STRIPE_BILLING_METHOD))

(***************************************************************************)
(* C15: with an explicit STRIPE_BILLING_METHOD the legs a finished         *)
(* invocation attempted are exactly those the override names, whatever     *)
(* price, meter event name and prepaid flag are configured.                *)
(***************************************************************************)
C15_OverrideVerbatim ==
    (logger.constructed /\ OverrideSet) =>
        \A p \in Procs :
            proc[p].pc = "done" =>
                /\ InTrace(proc[p], "meters") <=> Named("meters")
                /\ InTrace(proc[p], "subscriptions") <=> Named("subscriptions")
                /\ InTrace(proc[p], "prepaid") <=> Named("prepaid")

(***************************************************************************)
(* C16: whenever validate_environment succeeds the set of active           *)
(* strategies is non-empty, and a finished invocation has attempted at     *)
(* least one leg.                                                          *)
(***************************************************************************)
C16_ActiveStrategiesNonEmpty ==
    \A p \in Procs :
        (logger.constructed /\ proc[p].pc = "done") =>
            /\ ActiveStrategies(logger) # {}
            /\ proc[p].trace # <<>>

ApiKeyMissing == env.STRIPE_API_KEY = None
NoMethodConfigured == ~PriceConfigured /\ ~MeterConfigured /\ ~PrepaidFlagSet

(***************************************************************************)
(* C17: validate_environment reports everything missing in one error: the  *)
(* API key and the three billing-method alternatives when both are         *)
(* missing, the one that is missing otherwise; and then no StripeLogger    *)
(* is constructed and nothing is dispatched.                               *)
(***************************************************************************)
C17_MissingKeysReportedTogether ==
    /\ logger.constructed <=> (~ApiKeyMissing /\ ~NoMethodConfigured)
    /\ logger.missing_keys =
          (IF ApiKeyMissing THEN <<"STRIPE_API_KEY">> ELSE <<>>)
          \o (IF NoMethodConfigured
              THEN <<"STRIPE_PRICE_ID, STRIPE_METER_EVENT_NAME, or STRIPE_USE_PREPAID_BALANCE">>
              ELSE <<>>)
    /\ ~logger.constructed => \A p \in Procs : proc[p].pc = "idle"

C17_BothMissingBothNamed ==
    /\ ApiKeyMissing /\ NoMethodConfigured
    /\ ~logger.constructed
    /\ Len(logger.missing_keys) = 2
    /\ logger.missing_keys[1] = "STRIPE_API_KEY"

\* the rows of the transaction log that belong to an identity
RowsOf(ident) ==
    {i \in DOMAIN transactions :
        <<transactions[i].customer_type, transactions[i].customer_id>> = ident}

RECURSIVE SumAmounts(_)
SumAmounts(rows) ==
    IF rows = {} THEN 0
    ELSE LET i == CHOOSE j \in rows : TRUE
         IN  transactions[i].amount + SumAmounts(rows \ {i})

\* a debit of invocation p that deducted less than the cost
ClampedDebitOf(p) ==
    \E i \in DeductionsOf(p) : 0 - transactions[i].amount < proc[p].req.cost[1]

(***************************************************************************)
(* C18: every TransactionRecord appended, by a debit or by a webhook       *)
(* credit, has balance_after = balance_before + amount.                    *)
(***************************************************************************)
C18_RowsBalance ==
    \A i \in DOMAIN transactions :
        transactions[i].balance_after
            = transactions[i].balance_before + transactions[i].amount

C18_ClampedDebitAndCreditLogged ==
    /\ \E p \in Procs : ClampedDebitOf(p)
    /\ TopupsOf("cs_1") # {}

(***************************************************************************)
(* C19: in every state where no ledger operation is in flight, reached by  *)
(* any interleaving of debits and webhook credits none of whose ledger     *)
(* calls failed, the amounts of an identity's TransactionRecords sum to    *)
(* its balance.                                                            *)
(***************************************************************************)
C19_LogSumsToBalance ==
    (/\ Quiet
     /\ \A p \in Procs : ~HasError(proc[p], "prepaid")
     /\ \A h \in Hooks : hook[h].result # "raised")
    => \A ident \in Identities :
          balances[ident].exists
              => SumAmounts(RowsOf(ident)) = balances[ident].balance

(***************************************************************************)
(* C20: along every serial sequence of credits and debits on an identity,  *)
(* at every point total_topups - total_spent = balance; a clamped debit    *)
(* adds what was actually deducted to total_spent.                         *)
(***************************************************************************)
C20_TotalsMatchBalance ==
    \A ident \in Identities :
        balances[ident].total_topups - balances[ident].total_spent
            = balances[ident].balance

C20_ClampedDebitThenCredit ==
    /\ ClampedDebitOf("p1")
    /\ hook["h1"].pc = "done"
    /\ hook["h1"].result = "success"
    /\ hook["h1"].balance_record.total_spent > StartLedger.balances[IdentityOf("p1")].total_spent
    /\ TopupsOf("cs_1") # {}

(***************************************************************************)
(* C21: total_spent and total_topups of every BalanceRecord are            *)
(* non-negative and no step, of any interleaving of debits and webhook     *)
(* credits, decreases either of them.                                      *)
(***************************************************************************)
C21_TotalsMonotonic ==
    [][\A ident \in Identities :
          /\ balances'[ident].total_spent >= balances[ident].total_spent
          /\ balances'[ident].total_topups >= balances[ident].total_topups
          /\ balances'[ident].total_spent >= 0
          /\ balances'[ident].total_topups >= 0]_vars

(***************************************************************************)
(* C26: when the field the charge_by policy selects is the empty string,   *)
(* every strategy treats it as absent: no provider call carries the empty  *)
(* customer id and the prepaid leg makes no ledger call.                   *)
(***************************************************************************)
C26_EmptyIdentityBillsNobody ==
    \A p \in Procs :
        (proc[p].pc # "idle" /\ ~PolicyInvalid /\ PolicyField(proc[p].req) = "") =>
            /\ proc[p].billed = <<>>
            /\ ~InTrace(proc[p], "meter_post")
            /\ ~InTrace(proc[p], "usage_post")
            /\ \A what \in {"find", "create", "update", "append"} : ~InTrace(proc[p], what)

\* the ledger call of invocation p that raised, if any
LedgerCallFailed(p, what) ==
    \E i \in DOMAIN proc[p].errors : proc[p].errors[i] = <<"prepaid", what>>

(***************************************************************************)
(* C27: a debit is one transaction over the balance update and the         *)
(* TransactionRecord append: when the append fails after the update, the   *)
(* BalanceRecord is left as it was before the debit.                       *)
(***************************************************************************)
C27_FailedAppendLeavesBalance ==
    \A p \in Procs :
        LedgerCallFailed(p, "append") =>
            balances[IdentityOf(p)] = StartLedger.balances[IdentityOf(p)]

(***************************************************************************)
(* C23: when response_cost is absent or not positive the prepaid strategy  *)
(* is skipped in both modes: no ledger call is made and the store is left  *)
(* as it was, while the meter and subscription legs that are active still  *)
(* run.                                                                    *)
(***************************************************************************)
C23_NoCostSkipsPrepaid ==
    \A p \in Procs :
        (proc[p].pc # "idle" /\ (proc[p].req.cost = <<>> \/ proc[p].req.cost[1] <= 0)) =>
            /\ \A what \in {"find", "create", "update", "append"} : ~InTrace(proc[p], what)
            /\ proc[p].pc \notin {"find", "create", "update", "append"}
            /\ balances = StartLedger.balances
            /\ transactions = StartLedger.transactions
            /\ ("meters" \in ActiveStrategies(logger) /\ proc[p].pc \in {"subs", "done"})
                   => InTrace(proc[p], "meters")
            /\ ("subscriptions" \in ActiveStrategies(logger) /\ proc[p].pc = "done"
                    /\ proc[p].raised # "meters")
                   => InTrace(proc[p], "subscriptions")

C23_ZeroCostAllLegsActive ==
    /\ ActiveStrategies(logger) = {"prepaid", "meters", "subscriptions"}
    /\ proc["p1"].pc = "done"
    /\ proc["p1"].req.cost = <<0>>
    /\ proc["p1"].trace = <<"prepaid", "meters", "meter_post", "subscriptions", "usage_post">>
    /\ balances[<<"end_user_id", "a">>].balance = MaxTopup

(***************************************************************************)
(* C22: the quantity of every usage record and the value of every meter    *)
(* event is the response's total_tokens when that is positive, and 1 when  *)
(* total_tokens is 0 or the response carries no usage; 0 is never emitted. *)
(***************************************************************************)
C22_UnitFloor ==
    \A p \in Procs : \A i \in DOMAIN proc[p].billed :
        LET usage == proc[p].req.usage
            emitted == proc[p].billed[i][3]
        IN  /\ emitted # 0
            /\ emitted = IF usage # <<>> /\ usage[1] > 0 THEN usage[1] ELSE 1

\* prisma_client is not None: the only HTTP 500 of the handler before its awaits
DatabaseInitialized(hk) == hk.result # "http_500"

C30_UnknownIdentityRejected ==
    [][\A h \in Hooks :
          (/\ hook[h].pc = "find"
           /\ hook'[h].pc # "find"
           /\ hook'[h].result # "raised"
           /\ ~balances[<<hook[h].event.customer_type, hook[h].event.customer_id>>].exists)
          => /\ hook'[h].pc = "done"
             /\ hook'[h].result = "error: Balance record not found"
             /\ balances' = balances
             /\ transactions' = transactions]_vars

C30_TopupForUnknownIdentity ==
    /\ hook["h1"].pc = "done"
    /\ hook["h1"].result = "error: Balance record not found"
    /\ hook["h1"].event.customer_type = "end_user_id"
    /\ hook["h1"].event.topup_amount = MaxTopup
    /\ hook["h2"].pc = "idle"
    /\ balances = EmptyLedger.balances
    /\ transactions = <<>>

\* the invocations and endpoint requests whose create of identity i's row succeeded
Creators(i) ==
    {p \in Procs : /\ IdentityOf(p) = i
                   /\ InTrace(proc[p], "create")
                   /\ ~LedgerCallFailed(p, "create")}
    \cup {c \in Calls : /\ <<call[c].customer_type, call[c].customer_id>> = i
                        /\ InTrace(call[c], "created")}

(***************************************************************************)
(* C25: a BalanceRecord comes into being only in the create of a first     *)
(* balance query, checkout or debit for its identity, with balance,        *)
(* total_topups and total_spent 0; no identity ever has more than one      *)
(* record, also when two first references run concurrently; and a record   *)
(* that exists is never deleted.                                           *)
(***************************************************************************)
C25_OneLazyRecordPerIdentity ==
    /\ [](\A i \in Identities :
             Cardinality(Creators(i)) + (IF StartLedger.balances[i].exists THEN 1 ELSE 0) <= 1)
    /\ [][\A i \in Identities :
             /\ balances[i].exists => balances'[i].exists
             /\ (~balances[i].exists /\ balances'[i].exists) =>
                   /\ balances'[i] = NewRecord
                   /\ \/ \E p \in Procs : proc[p].pc = "create" /\ IdentityOf(p) = i
                      \/ \E c \in Calls :
                            /\ call[c].pc = "create"
                            /\ <<call[c].customer_type, call[c].customer_id>> = i]_vars

C25_ConcurrentFirstReferences ==
    /\ StartLedger = EmptyLedger
    /\ proc["p1"].pc = "done"
    /\ Creators(<<"end_user_id", "a">>) = {"p1"}
    /\ call["c1"].op = "get_balance"
    /\ call["c1"].customer_id = "a"
    /\ call["c1"].trace = <<"find", "create">>
    /\ call["c1"].result = "raised"
    /\ balances[<<"end_user_id", "a">>].exists

(***************************************************************************)
(* C28: a step of a debit leaves total_topups of every record and every    *)
(* field of every other identity's record as they were; a step of a        *)
(* webhook credit leaves total_spent of every record and every field of    *)
(* every other identity's record as they were.                             *)
(***************************************************************************)
C28_LedgerFrame ==
    [][/\ \A p \in Procs :
             (proc[p].pc \in {"find", "create", "update", "append"} /\ proc'[p] # proc[p]) =>
                 \A i \in Identities :
                     /\ balances'[i].total_topups = balances[i].total_topups
                     /\ i # IdentityOf(p) => balances'[i] = balances[i]
       /\ \A h \in Hooks :
             (hook[h].pc \in {"find", "update", "record"} /\ hook'[h] # hook[h]) =>
                 \A i \in Identities :
                     /\ balances'[i].total_spent = balances[i].total_spent
                     /\ i # <<hook[h].event.customer_type, hook[h].event.customer_id>>
                           => balances'[i] = balances[i]]_vars

C28_DebitBesideOtherIdentity ==
    /\ balances[<<"end_user_id", "b">>] = NewRecord
    /\ proc["p1"].pc = "done"
    /\ Debited("p1")
    /\ balances[<<"end_user_id", "a">>].total_topups = MaxTopup
    /\ balances[<<"end_user_id", "a">>].total_spent = 3

====
